---------------------------- MODULE Spec2Model ----------------------------
(***************************************************************************)
(* Model of tracker.py: the StatusPageFetcher (conditional GET with a      *)
(* per-URL validator cache), the ChangeDetector (seen-set of               *)
(* (incident_id, update_id) keys), the per-provider monitor_provider loop  *)
(* and main's task group.                                                  *)
(***************************************************************************)
EXTENDS Naturals, Sequences, FiniteSets, TLC

(***************************************************************************)
(* JSON values.  A JSON object is a function whose domain is the set of    *)
(* keys it carries, so that dict.get(key, default) can tell a missing key  *)
(* from a present one.  Null is JSON null.                                 *)
(***************************************************************************)
Null == "<null>"

\* dict.get(k, default)
Get(d, k, default) == IF k \in DOMAIN d THEN d[k] ELSE default

\* str.strip() on the body strings the model uses
Strip(s) ==
  CASE s = "  "              -> ""
    [] s = " Fix deployed "  -> "Fix deployed"
    [] OTHER                 -> s

(***************************************************************************)
(* ChangeDetector.find_new_updates                                         *)
(***************************************************************************)

\* affected = [c.get("name", "") for c in incident.get("components", [])
\*             if c.get("name")]
RECURSIVE ComponentNames(_)
ComponentNames(cs) ==
  IF cs = <<>> THEN <<>>
  ELSE LET n == Get(Head(cs), "name", Null)
       IN  IF n = Null \/ n = ""
           THEN ComponentNames(Tail(cs))
           ELSE <<n>> \o ComponentNames(Tail(cs))

\* A variant of the constructor call whose dict.get calls name no default, so
\* that a missing field reads as None.
IncidentUpdateNoDefaults(incident, update) ==
  [ incident_id         |-> Get(incident, "id", ""),
    incident_name       |-> Get(incident, "name", Null),
    update_id           |-> Get(update, "id", ""),
    created_at          |-> Get(update, "created_at", Null),
    body                |-> Strip(Get(update, "body", "")),
    update_status       |-> Get(update, "status", Null),
    impact              |-> Get(incident, "impact", Null),
    affected_components |-> ComponentNames(Get(incident, "components", <<>>)) ]

\* the IncidentUpdate(...) constructor call of the inner loop
IncidentUpdate(incident, update) ==
  [ incident_id         |-> Get(incident, "id", ""),
    incident_name       |-> Get(incident, "name", "Unknown incident"),
    update_id           |-> Get(update, "id", ""),
    created_at          |-> Get(update, "created_at", ""),
    body                |-> Strip(Get(update, "body", "")),
    update_status       |-> Get(update, "status", "unknown"),
    impact              |-> Get(incident, "impact", "unknown"),
    affected_components |-> ComponentNames(Get(incident, "components", <<>>)) ]

\* A variant of the inner loop body whose key is (incident name, update id).
ProcessUpdateKeyedOnName(st, incident, update) ==
  LET key == <<Get(incident, "name", "Unknown incident"), Get(update, "id", "")>>
  IN  IF key \in st.seen THEN st
      ELSE [ seen        |-> st.seen \cup {key},
             new_updates |-> Append(st.new_updates, IncidentUpdate(incident, update)),
             raised      |-> FALSE ]

\* A variant of the inner loop body that puts a new record at the front of
\* the list (insert(0, ...)) instead of at its end.
ProcessUpdatePrepend(st, incident, update) ==
  LET key == <<Get(incident, "id", ""), Get(update, "id", "")>>
  IN  IF key \in st.seen THEN st
      ELSE [ seen        |-> st.seen \cup {key},
             new_updates |-> <<IncidentUpdate(incident, update)>> \o st.new_updates,
             raised      |-> FALSE ]

\* A variant of the inner loop body that reports an update without
\* recording its key.
ProcessUpdateNoAdd(st, incident, update) ==
  LET key == <<Get(incident, "id", ""), Get(update, "id", "")>>
  IN  IF key \in st.seen THEN st
      ELSE [ seen        |-> st.seen,
             new_updates |-> Append(st.new_updates, IncidentUpdate(incident, update)),
             raised      |-> FALSE ]

\* One pass of the inner loop body.  st = [seen, new_updates, raised] is the
\* detector's seen-set, the list under construction, and whether an
\* exception has left the function.  A null body makes .strip() raise
\* AttributeError after the key was added to the seen-set.
ProcessUpdate(st, incident, update) ==
  LET key == <<Get(incident, "id", ""), Get(update, "id", "")>>
  IN  IF key \in st.seen THEN st
      ELSE IF Get(update, "body", "") = Null
           THEN [ seen        |-> st.seen \cup {key},
                  new_updates |-> st.new_updates,
                  raised      |-> TRUE ]
           ELSE [ seen        |-> st.seen \cup {key},
                  new_updates |-> Append(st.new_updates, IncidentUpdate(incident, update)),
                  raised      |-> FALSE ]

\* A variant of the inner loop that leaves the loop (break) at the first
\* entry whose key was already reported.
RECURSIVE UpdatesLoopBreak(_, _, _)
UpdatesLoopBreak(st, incident, updates) ==
  IF st.raised \/ updates = <<>> THEN st
  ELSE IF <<Get(incident, "id", ""), Get(Head(updates), "id", "")>> \in st.seen
       THEN st
       ELSE UpdatesLoopBreak(ProcessUpdate(st, incident, Head(updates)), incident,
                             Tail(updates))

\* for update in incident.get("incident_updates", []): ...
RECURSIVE UpdatesLoop(_, _, _)
UpdatesLoop(st, incident, updates) ==
  IF st.raised \/ updates = <<>> THEN st
  ELSE UpdatesLoop(ProcessUpdate(st, incident, Head(updates)), incident, Tail(updates))

\* A variant of the outer loop that tests every incident's entries against
\* the seen-set as it was when the call began, and records the new keys of
\* all incidents at the end.
RECURSIVE IncidentsLoopSnapshot(_, _)
IncidentsLoopSnapshot(st, incidents) ==
  IF st.raised \/ incidents = <<>> THEN st
  ELSE LET r    == UpdatesLoop(st, Head(incidents),
                               Get(Head(incidents), "incident_updates", <<>>))
           rest == IncidentsLoopSnapshot([st EXCEPT !.new_updates = <<>>],
                                         Tail(incidents))
       IN  [ seen        |-> r.seen \cup rest.seen,
             new_updates |-> r.new_updates \o rest.new_updates,
             raised      |-> r.raised \/ rest.raised ]

\* for incident in data.get("incidents", []): ...
RECURSIVE IncidentsLoop(_, _)
IncidentsLoop(st, incidents) ==
  IF st.raised \/ incidents = <<>> THEN st
  ELSE IncidentsLoop(
         UpdatesLoop(st, Head(incidents), Get(Head(incidents), "incident_updates", <<>>)),
         Tail(incidents))

\* A parsed response body: a JSON object or a JSON array.
JsonObject(d) == [kind |-> "object", value |-> d]
JsonArray     == [kind |-> "array"]

\* A variant of find_new_updates that starts every call from an empty
\* seen-set.
find_new_updates_reset(S, data) ==
  IF data.kind # "object"
  THEN [seen |-> S, new_updates |-> <<>>, raised |-> TRUE]
  ELSE IncidentsLoop([seen |-> {}, new_updates |-> <<>>, raised |-> FALSE],
                     Get(data.value, "incidents", <<>>))

\* find_new_updates(self, data) with self._seen = S.  data.get raises
\* AttributeError when data is not a JSON object.
find_new_updates(S, data) ==
  IF data.kind # "object"
  THEN [seen |-> S, new_updates |-> <<>>, raised |-> TRUE]
  ELSE IncidentsLoop([seen |-> S, new_updates |-> <<>>, raised |-> FALSE],
                     Get(data.value, "incidents", <<>>))

\* key of a returned record
KeyOf(r) == <<r.incident_id, r.update_id>>

KeysOfRecords(rs) == {KeyOf(rs[i]) : i \in DOMAIN rs}

\* the (incident_id, update_id) keys a JSON object document carries
DocKeys(d) ==
  LET incs == Get(d, "incidents", <<>>)
  IN  UNION { { <<Get(incs[i], "id", ""), Get(Get(incs[i], "incident_updates", <<>>)[j], "id", "")>>
                : j \in DOMAIN Get(incs[i], "incident_updates", <<>>) }
              : i \in DOMAIN incs }

\* the update entries of incident number i of document d
UpdatesOf(d, i) == Get(Get(d, "incidents", <<>>)[i], "incident_updates", <<>>)

\* the <<incident, entry>> positions of a document's update entries
Positions(d) ==
  UNION { { <<i, j>> : j \in DOMAIN UpdatesOf(d, i) }
          : i \in DOMAIN Get(d, "incidents", <<>>) }

\* the key find_new_updates computes for the entry at a position
KeyAt(d, pos) ==
  << Get(d.incidents[pos[1]], "id", ""), Get(UpdatesOf(d, pos[1])[pos[2]], "id", "") >>

\* the record find_new_updates builds for the entry at a position
RecordAt(d, pos) == IncidentUpdate(d.incidents[pos[1]], UpdatesOf(d, pos[1])[pos[2]])

\* document order: earlier incident first, then earlier update
Before(pos1, pos2) ==
  pos1[1] < pos2[1] \/ (pos1[1] = pos2[1] /\ pos1[2] < pos2[2])

\* the first position, in document order, of an entry with key k
IsFirstOf(d, pos, k) ==
  /\ KeyAt(d, pos) = k
  /\ \A q \in Positions(d) : KeyAt(d, q) = k => ~Before(q, pos)

\* document d2 has an entry wherever d has one, with the same key
SameKeysInPlace(d, d2) ==
  /\ Positions(d2) = Positions(d)
  /\ \A pos \in Positions(d) : KeyAt(d2, pos) = KeyAt(d, pos)

\* the number of update entries of a document
NumEntries(d) == Cardinality(Positions(d))

\* document d with entry e added to incident i, as its j-th update
WithEntry(d, i, j, e) ==
  LET us == UpdatesOf(d, i)
      inc == d.incidents[i]
      us2 == SubSeq(us, 1, j - 1) \o <<e>> \o SubSeq(us, j, Len(us))
      inc2 == [k \in DOMAIN inc \cup {"incident_updates"} |->
                 IF k = "incident_updates" THEN us2 ELSE inc[k]]
  IN  [k \in DOMAIN d |->
         IF k = "incidents" THEN [d.incidents EXCEPT ![i] = inc2] ELSE d[k]]

(***************************************************************************)
(* Documents fed to a stand-alone detector.                                *)
(***************************************************************************)
MaxIncidents == 2
MaxEntries   == 2

UpdateEntries ==
  { [id |-> "U1", created_at |-> "2024-01-01T00:00:00Z", body |-> " Fix deployed ",
     status |-> "investigating"],
    [id |-> "U1", created_at |-> "2024-01-01T01:00:00Z", body |-> "  ",
     status |-> "resolved"],
    << >> }

IncidentHeads ==
  { [id |-> "I1", name |-> "API errors", impact |-> "major",
     components |-> << [name |-> "API"], [name |-> ""], << >> >>],
    [id |-> "I1", name |-> "API errors (resolved)"],
    << >> }

\* sequences of exactly n update entries
RECURSIVE EntrySeqs(_)
EntrySeqs(n) ==
  IF n = 0 THEN { <<>> }
  ELSE { <<e>> \o s : e \in UpdateEntries, s \in EntrySeqs(n - 1) }

\* an incident without update entries: no record is built from its fields
EmptyHead == [id |-> "I1", name |-> "API errors (resolved)"]

\* incidents carrying exactly n update entries; one without entries has an
\* empty incident_updates list or none
IncidentsWith(n) ==
  IF n = 0
  THEN { EmptyHead, EmptyHead @@ [incident_updates |-> <<>>] }
  ELSE { h @@ [incident_updates |-> s] : h \in IncidentHeads, s \in EntrySeqs(n) }

\* lists of exactly n incidents carrying at most t update entries in all
RECURSIVE IncidentLists(_, _)
IncidentLists(n, t) ==
  IF n = 0 THEN { <<>> }
  ELSE UNION { { <<inc>> \o rest : inc \in IncidentsWith(j),
                                   rest \in IncidentLists(n - 1, t - j) }
               : j \in 0..t }

DetDocs ==
  { << >> } \cup
  UNION { { [incidents |-> l] : l \in IncidentLists(n, MaxEntries) } : n \in 0..MaxIncidents }

\* document d with the fields of incident i replaced by those of head h
WithHead(d, i, h) ==
  LET inc  == d.incidents[i]
      inc2 == [k \in DOMAIN h \cup (DOMAIN inc \cap {"incident_updates"}) |->
                 IF k = "incident_updates" THEN inc[k] ELSE h[k]]
  IN  [k \in DOMAIN d |->
         IF k = "incidents" THEN [d.incidents EXCEPT ![i] = inc2] ELSE d[k]]

\* document d with the entry at a position replaced by entry e
WithEntryReplaced(d, pos, e) ==
  LET inc  == d.incidents[pos[1]]
      inc2 == [inc EXCEPT !["incident_updates"] = [@ EXCEPT ![pos[2]] = e]]
  IN  [k \in DOMAIN d |->
         IF k = "incidents" THEN [d.incidents EXCEPT ![pos[1]] = inc2] ELSE d[k]]

\* the documents that differ from d in the fields of one incident that has
\* update entries, or of one update entry, and carry the same ids
Revisions(d) ==
  { d2 \in { WithHead(d, i, h) : i \in {pos[1] : pos \in Positions(d)},
                                 h \in IncidentHeads }
           \cup { WithEntryReplaced(d, pos, e) : pos \in Positions(d),
                                                e \in UpdateEntries } :
      d2 # d /\ SameKeysInPlace(d, d2) }

(***************************************************************************)
(* The HTTP server behind each URL.  It serves one body at a time and      *)
(* sends an ETag and/or a Last-Modified header with it, or neither.  The   *)
(* validators of a body are derived from the body, so two servings of the  *)
(* same body carry the same validators.                                    *)
(***************************************************************************)
None == "<none>"

SrvEntryU1 ==
  [id |-> "U1", created_at |-> "2024-01-01T00:00:00Z", body |-> "",
   status |-> "investigating"]
SrvEntryU2 ==
  [id |-> "U2", created_at |-> "2024-01-01T01:00:00Z", body |-> " Fix deployed ",
   status |-> "resolved"]
SrvIncident(updates) ==
  [id |-> "I1", name |-> "API errors", impact |-> "major",
   components |-> << [name |-> "API"] >>, incident_updates |-> updates]

\* the documents a status page can hold
SrvBodyIds == {"d1", "d12"}

\* what the body of a full response can turn out to be when it is read:
\* the document, or (from a proxy or a broken deployment) a JSON array or
\* something that is not JSON
BodyKinds == {"document", "array", "not_json"}

\* the URLs whose status page changes while the tracker runs
ChangingURLs == {"u1"}

\* the parsed document
ParsedBody(b) ==
  CASE b = "d1"    -> JsonObject([incidents |-> << SrvIncident(<< SrvEntryU1 >>) >>])
    [] b = "d12"   -> JsonObject([incidents |-> << SrvIncident(<< SrvEntryU1, SrvEntryU2 >>) >>])

BodyKeys(b) == DocKeys(ParsedBody(b).value)

HeaderPolicies == {"both", "etag", "last_modified", "neither"}

\* response.headers of a full response for server state s = [body, policy]
ResponseHeaders(s) ==
  (IF s.policy \in {"both", "etag"} THEN [ETag |-> s.body] ELSE << >>)
  @@ (IF s.policy \in {"both", "last_modified"} THEN "Last-Modified" :> s.body ELSE << >>)

\* A conforming server answers 304 exactly to a request whose If-None-Match
\* names the entity tag of the body it serves now or, without If-None-Match,
\* whose If-Modified-Since is the Last-Modified of that body.
AnswersNotModified(s, headers) ==
  LET h == ResponseHeaders(s)
  IN  IF "If-None-Match" \in DOMAIN headers
      THEN "ETag" \in DOMAIN h /\ h["ETag"] = headers["If-None-Match"]
      ELSE /\ "If-Modified-Since" \in DOMAIN headers
           /\ "Last-Modified" \in DOMAIN h
           /\ h["Last-Modified"] = headers["If-Modified-Since"]

(***************************************************************************)
(* StatusPageFetcher.fetch                                                 *)
(***************************************************************************)
\* Python truthiness of a header value or a dict.get result
Truthy(v) == v # None /\ v # ""

\* request_headers built from self._cache.get(url, {})
RequestHeaders(c, u) ==
  LET cached == Get(c, u, << >>)
  IN  (IF Truthy(Get(cached, "etag", None))
       THEN "If-None-Match" :> cached["etag"] ELSE << >>)
      @@ (IF Truthy(Get(cached, "last_modified", None))
          THEN "If-Modified-Since" :> cached["last_modified"] ELSE << >>)

\* new_cache built from response.headers
NewCache(h) ==
  (IF Truthy(Get(h, "ETag", None)) THEN "etag" :> h["ETag"] ELSE << >>)
  @@ (IF Truthy(Get(h, "Last-Modified", None))
      THEN "last_modified" :> h["Last-Modified"] ELSE << >>)

\* A variant of the store that merges the new validators into the old entry.
StoreEntryMerged(c, u, e) ==
  [x \in DOMAIN c \cup {u} |-> IF x = u THEN e @@ Get(c, u, << >>) ELSE c[x]]

\* self._cache[url] = new_cache
StoreEntry(c, u, e) == [x \in DOMAIN c \cup {u} |-> IF x = u THEN e ELSE c[x]]

\* the part of the cache a request for u reads
EntryFor(c, u) == [x \in DOMAIN c \cap {u} |-> c[x]]

(***************************************************************************)
(* ConsoleOutputHandler.emit and the body of monitor_provider's loop       *)
(***************************************************************************)
\* output.emit(provider_name, upd): one more block printed
emit(log, upd) == Append(log, upd)

\* A variant of the emit loop that walks the list from its end.
RECURSIVE EmitAllReversed(_, _)
EmitAllReversed(log, new_updates) ==
  IF new_updates = <<>> THEN log
  ELSE emit(EmitAllReversed(log, Tail(new_updates)), Head(new_updates))

\* for upd in new_updates: output.emit(provider_name, upd)
RECURSIVE EmitAll(_, _)
EmitAll(log, new_updates) ==
  IF new_updates = <<>> THEN log
  ELSE EmitAll(emit(log, Head(new_updates)), Tail(new_updates))

\* what fetch returns when it returns no document
NoData == [kind |-> "None"]

\* A variant of the loop body that leaves the emit loop after its first pass.
monitor_body_first_only(S, log, data) ==
  IF data = NoData
  THEN [seen |-> S, emitted |-> log, returned |-> <<>>, called |-> FALSE, raised |-> FALSE]
  ELSE LET r == find_new_updates(S, data)
       IN  IF r.raised
           THEN [seen |-> r.seen, emitted |-> log, returned |-> <<>>,
                 called |-> TRUE, raised |-> TRUE]
           ELSE [seen |-> r.seen,
                 emitted |-> IF r.new_updates = <<>> THEN log
                             ELSE emit(log, Head(r.new_updates)),
                 returned |-> r.new_updates, called |-> TRUE, raised |-> FALSE]

\* A variant of the loop body without the `if data is not None` test.
monitor_body_unchecked(S, log, data) ==
  LET r == find_new_updates(S, data)
  IN  IF r.raised
      THEN [seen |-> r.seen, emitted |-> log, returned |-> <<>>,
            called |-> TRUE, raised |-> TRUE]
      ELSE [seen |-> r.seen, emitted |-> EmitAll(log, r.new_updates),
            returned |-> r.new_updates, called |-> TRUE, raised |-> FALSE]

\* The loop body after `data = await fetcher.fetch(url)`, up to the sleep:
\* S is the detector's seen-set and log the sink's output so far.
monitor_body(S, log, data) ==
  IF data = NoData
  THEN [seen |-> S, emitted |-> log, returned |-> <<>>, called |-> FALSE, raised |-> FALSE]
  ELSE LET r == find_new_updates(S, data)
       IN  IF r.raised
           THEN [seen |-> r.seen, emitted |-> log, returned |-> <<>>,
                 called |-> TRUE, raised |-> TRUE]
           ELSE [seen |-> r.seen, emitted |-> EmitAll(log, r.new_updates),
                 returned |-> r.new_updates, called |-> TRUE, raised |-> FALSE]

(***************************************************************************)
(* State                                                                   *)
(***************************************************************************)
Providers == {"A", "B"}
URLs      == {"u1", "u2"}

VARIABLES
  url,        \* STATUS_PROVIDERS: the URL configured for each provider
  proc,       \* main: "running", "crashed" (an exception left main) or "stopped"
  pc,         \* where each provider task is suspended
  cache,      \* the shared fetcher's _cache: url -> {etag, last_modified}
  req,        \* request headers of each provider's request in flight
  cached0,    \* the cache, as it was when that request was built
  resp,       \* the response whose body a provider is reading
  seen,       \* each provider's detector: its _seen set
  called,     \* whether find_new_updates was called in the provider's cycle
  outcome,    \* how the fetch of the provider's cycle ended ("document": it
              \* returned the parsed body)
  detected,   \* per provider, find_new_updates' return values, concatenated
  emitted,    \* per provider, the updates passed to output.emit, in order
  srv,        \* per URL, the body the server serves and its header policy
  lastok,     \* per URL, the headers of the latest response that passed
              \* raise_for_status (NoResp: none yet)
  dphase,     \* stand-alone detector: "idle", or how its last call was made
              \* ("returned", "repeated", "extended", "revised") or ended
              \* ("raised")
  dseen,      \* stand-alone detector: its _seen set
  ddoc,       \* the document of the call that just returned
  dout,       \* what that call returned
  dreturned,  \* every key any call on the detector has returned
  dseen0,     \* the _seen set as it was when that call began
  dadded      \* the position of the entry the caller added to the document

dvars == <<dphase, dseen, ddoc, dout, dreturned, dseen0, dadded>>

svars == <<url, proc, pc, cache, req, cached0, resp, seen, called, outcome,
           detected, emitted, srv, lastok>>

vars == <<svars, dvars>>

NoDoc  == [none |-> TRUE]
NoReq  == [none |-> TRUE]
NoResp == [none |-> TRUE]

DetIdle ==
  /\ dphase = "idle"
  /\ dseen = {}
  /\ ddoc = NoDoc
  /\ dout = <<>>
  /\ dreturned = {}
  /\ dseen0 = {}
  /\ dadded = <<>>

\* main up to asyncio.gather: one fetcher with an empty cache, one fresh
\* detector per provider, every task created and not yet run
SysInit ==
  /\ proc = "running"
  /\ pc = [p \in Providers |-> "created"]
  /\ cache = << >>
  /\ req = [p \in Providers |-> NoReq]
  /\ cached0 = [p \in Providers |-> << >>]
  /\ resp = [p \in Providers |-> NoResp]
  /\ seen = [p \in Providers |-> {}]
  /\ called = [p \in Providers |-> FALSE]
  /\ outcome = [p \in Providers |-> "none"]
  /\ detected = [p \in Providers |-> <<>>]
  /\ emitted = [p \in Providers |-> <<>>]
  /\ srv = [u \in URLs |-> [body |-> "d1", policy |-> "both"]]
  /\ lastok = [u \in URLs |-> NoResp]

Init ==
  /\ url \in {f \in [Providers -> URLs] : f["A"] = "u1"}
  /\ SysInit
  /\ DetIdle

DetInit ==
  /\ url = [p \in Providers |-> "u1"]
  /\ SysInit
  /\ DetIdle

(***************************************************************************)
(* monitor_provider: one task per provider.  A task is suspended at        *)
(* "created" (not yet run), "await_response" (session.get), "await_body"   *)
(* (response.json) or "sleep" (asyncio.sleep); "raised" and "cancelled"    *)
(* are its two ends.                                                       *)
(***************************************************************************)
ConnectFailures == {"network_error", "timeout"}

\* statuses raise_for_status lets pass: 2xx, and (as 300) a 3xx that is
\* neither 304 nor a redirect the session follows
PassingStatuses == {200, 300}

\* A variant in which _seen is one set shared by every ChangeDetector (a
\* class attribute instead of an instance attribute).
ReturnedSharedSeen(p, how, data) ==
  LET m == monitor_body(UNION {seen[q] : q \in Providers}, emitted[p], data)
  IN  /\ seen' = [q \in Providers |-> m.seen]
      /\ emitted' = [emitted EXCEPT ![p] = m.emitted]
      /\ detected' = [detected EXCEPT ![p] = @ \o m.returned]
      /\ called' = [called EXCEPT ![p] = m.called]
      /\ pc' = [pc EXCEPT ![p] = IF m.raised THEN "raised" ELSE "sleep"]
      /\ outcome' = [outcome EXCEPT ![p] = how]
      /\ req' = [req EXCEPT ![p] = NoReq]
      /\ cached0' = [cached0 EXCEPT ![p] = << >>]
      /\ resp' = [resp EXCEPT ![p] = NoResp]

\* fetch returns (data = NoData for None) and the loop body runs to the sleep,
\* or an exception leaves the loop
Returned(p, how, data) ==
  LET m == monitor_body(seen[p], emitted[p], data)
  IN  /\ seen' = [seen EXCEPT ![p] = m.seen]
      /\ emitted' = [emitted EXCEPT ![p] = m.emitted]
      /\ detected' = [detected EXCEPT ![p] = @ \o m.returned]
      /\ called' = [called EXCEPT ![p] = m.called]
      /\ pc' = [pc EXCEPT ![p] = IF m.raised THEN "raised" ELSE "sleep"]
      /\ outcome' = [outcome EXCEPT ![p] = how]
      /\ req' = [req EXCEPT ![p] = NoReq]
      /\ cached0' = [cached0 EXCEPT ![p] = << >>]
      /\ resp' = [resp EXCEPT ![p] = NoResp]

\* the task starts, or its sleep ends: fetch builds the request from the
\* cache and sends it
BeginCycle(p) ==
  /\ proc = "running"
  /\ pc[p] \in {"created", "sleep"}
  /\ pc' = [pc EXCEPT ![p] = "await_response"]
  /\ req' = [req EXCEPT ![p] = RequestHeaders(cache, url[p])]
  /\ cached0' = [cached0 EXCEPT ![p] = EntryFor(cache, url[p])]
  /\ called' = [called EXCEPT ![p] = FALSE]
  /\ outcome' = [outcome EXCEPT ![p] = "pending"]
  /\ UNCHANGED <<url, proc, cache, resp, seen, detected, emitted, srv, lastok, dvars>>

\* aiohttp.ClientError or asyncio.TimeoutError before any status line
ConnectFail(p, kind) ==
  /\ proc = "running"
  /\ pc[p] = "await_response"
  /\ Returned(p, kind, NoData)
  /\ UNCHANGED <<url, proc, cache, srv, lastok, dvars>>

\* A variant of the 304 branch that stores the validators of the 304
\* response (it carries none) before it returns.
NotModifiedStores(p) ==
  /\ proc = "running"
  /\ pc[p] = "await_response"
  /\ AnswersNotModified(srv[url[p]], req[p])
  /\ Returned(p, "not_modified", NoData)
  /\ cache' = StoreEntry(cache, url[p], NewCache(<< >>))
  /\ UNCHANGED <<url, proc, srv, lastok, dvars>>

\* response.status == 304
NotModified(p) ==
  /\ proc = "running"
  /\ pc[p] = "await_response"
  /\ AnswersNotModified(srv[url[p]], req[p])
  /\ Returned(p, "not_modified", NoData)
  /\ UNCHANGED <<url, proc, cache, srv, lastok, dvars>>

\* a status of 400 or more: raise_for_status raises ClientResponseError
BadStatus(p) ==
  /\ proc = "running"
  /\ pc[p] = "await_response"
  /\ Returned(p, "bad_status", NoData)
  /\ UNCHANGED <<url, proc, cache, srv, lastok, dvars>>

\* any other status (2xx, or a 3xx that is neither 304 nor a followed
\* redirect): raise_for_status passes, the validators are stored, and the
\* task goes on to read the body
HeadersOk(p, status) ==
  /\ proc = "running"
  /\ pc[p] = "await_response"
  /\ ~AnswersNotModified(srv[url[p]], req[p])
  /\ cache' = StoreEntry(cache, url[p], NewCache(ResponseHeaders(srv[url[p]])))
  /\ status \in PassingStatuses
  /\ resp' = [resp EXCEPT ![p] = [body |-> srv[url[p]].body]]
  /\ pc' = [pc EXCEPT ![p] = "await_body"]
  /\ req' = [req EXCEPT ![p] = NoReq]
  /\ lastok' = [lastok EXCEPT ![url[p]] = ResponseHeaders(srv[url[p]])]
  /\ UNCHANGED <<url, proc, cached0, seen, called, outcome, detected, emitted,
                 srv, dvars>>

\* asyncio.TimeoutError while response.json reads the body
BodyTimeout(p) ==
  /\ proc = "running"
  /\ pc[p] = "await_body"
  /\ Returned(p, "body_timeout", NoData)
  /\ UNCHANGED <<url, proc, cache, srv, lastok, dvars>>

\* response.json raises json.JSONDecodeError, which fetch does not catch
BodyNotJson(p) ==
  /\ proc = "running"
  /\ pc[p] = "await_body"
  /\ pc' = [pc EXCEPT ![p] = "raised"]
  /\ outcome' = [outcome EXCEPT ![p] = "json_error"]
  /\ req' = [req EXCEPT ![p] = NoReq]
  /\ cached0' = [cached0 EXCEPT ![p] = << >>]
  /\ resp' = [resp EXCEPT ![p] = NoResp]
  /\ UNCHANGED <<url, proc, cache, seen, called, detected, emitted, srv, lastok, dvars>>

\* response.json returns the parsed body: the document, or a JSON array
BodyParsed(p, kind) ==
  /\ proc = "running"
  /\ pc[p] = "await_body"
  /\ kind \in BodyKinds \ {"not_json"}
  /\ Returned(p, "document",
              IF kind = "array" THEN JsonArray ELSE ParsedBody(resp[p].body))
  /\ UNCHANGED <<url, proc, cache, srv, lastok, dvars>>

(***************************************************************************)
(* main                                                                    *)
(***************************************************************************)
\* Every task that has not ended is cancelled where it is suspended; its
\* request, if one is in flight, is dropped with it.
CancelTasks ==
  /\ pc' = [p \in Providers |-> IF pc[p] = "raised" THEN "raised" ELSE "cancelled"]
  /\ req' = [p \in Providers |-> NoReq]
  /\ cached0' = [p \in Providers |-> << >>]
  /\ resp' = [p \in Providers |-> NoResp]
  /\ UNCHANGED <<url, cache, seen, called, outcome, detected, emitted, srv, lastok, dvars>>

\* asyncio.gather re-raises a task's exception; main catches only
\* CancelledError, so the exception leaves main and asyncio.run cancels the
\* tasks that are left
GatherRaises ==
  /\ proc = "running"
  /\ \E p \in Providers : pc[p] = "raised"
  /\ proc' = "crashed"
  /\ CancelTasks

\* Ctrl+C: asyncio.run cancels main, gather cancels every task
Cancel ==
  /\ proc = "running"
  /\ proc' = "stopped"
  /\ CancelTasks

(***************************************************************************)
(* The servers                                                             *)
(***************************************************************************)
\* the status page behind u changes
Publish(u, b, pol) ==
  /\ proc = "running"
  /\ u \in ChangingURLs
  /\ srv[u] # [body |-> b, policy |-> pol]
  /\ srv' = [srv EXCEPT ![u] = [body |-> b, policy |-> pol]]
  /\ UNCHANGED <<url, proc, pc, cache, req, cached0, resp, seen, called, outcome,
                 detected, emitted, lastok, dvars>>

ProviderStep(p) ==
  \/ BeginCycle(p)
  \/ \E kind \in ConnectFailures : ConnectFail(p, kind)
  \/ NotModified(p)
  \/ BadStatus(p)
  \/ \E status \in PassingStatuses : HeadersOk(p, status)
  \/ BodyTimeout(p)
  \/ BodyNotJson(p)
  \/ \E kind \in BodyKinds : BodyParsed(p, kind)

Next ==
  \/ \E p \in Providers : ProviderStep(p)
  \/ GatherRaises
  \/ Cancel
  \/ \E u \in URLs, b \in SrvBodyIds, pol \in HeaderPolicies : Publish(u, b, pol)

Spec == Init /\ [][Next]_vars

(***************************************************************************)
(* The stand-alone detector                                                *)
(***************************************************************************)
\* detector.find_new_updates(doc) on the stand-alone detector
DetApply(doc, phase, added) ==
  /\ LET r == find_new_updates(dseen, JsonObject(doc))
     IN  /\ dseen' = r.seen
         /\ dout' = r.new_updates
         /\ dreturned' = dreturned \cup KeysOfRecords(r.new_updates)
         /\ dphase' = IF r.raised THEN "raised" ELSE phase
  /\ dseen0' = dseen
  /\ ddoc' = doc
  /\ dadded' = added
  /\ UNCHANGED svars

\* a call with any document
DetCall(doc) ==
  /\ dphase = "idle"
  /\ DetApply(doc, "returned", <<>>)

\* the caller passes the document of the last call once more
DetRepeat ==
  /\ dphase = "returned"
  /\ DetApply(ddoc, "repeated", <<>>)

\* the caller passes the document of the last call with one update entry
\* added to one of its incidents
DetExtend(i, j, e) ==
  /\ dphase = "returned"
  /\ NumEntries(ddoc) < MaxEntries
  /\ i \in DOMAIN Get(ddoc, "incidents", <<>>)
  /\ j \in 1..(Len(UpdatesOf(ddoc, i)) + 1)
  /\ DetApply(WithEntry(ddoc, i, j, e), "extended", <<i, j>>)

\* the caller passes the document of the last call in which the fields of
\* one incident or of one update entry have changed, and no id has
DetRevise(doc) ==
  /\ dphase = "returned"
  /\ doc \in Revisions(ddoc)
  /\ DetApply(doc, "revised", <<>>)

\* the caller drops the returned list; the detector is ready for another call
DetDone ==
  /\ dphase \in {"returned", "repeated", "extended", "revised"}
  /\ dphase' = "idle"
  /\ ddoc' = NoDoc
  /\ dout' = <<>>
  /\ dseen0' = {}
  /\ dadded' = <<>>
  /\ UNCHANGED <<dseen, dreturned>>
  /\ UNCHANGED svars

DetNext ==
  \/ dphase = "idle" /\ \E doc \in DetDocs : DetCall(doc)
  \/ DetRepeat
  \/ \E i \in 1..MaxIncidents, j \in 1..MaxEntries, e \in UpdateEntries : DetExtend(i, j, e)
  \/ dphase = "returned" /\ \E doc \in Revisions(ddoc) : DetRevise(doc)
  \/ DetDone

DetSpec == DetInit /\ [][DetNext]_vars

\* The event loop runs every task that is ready, and every request ends (in
\* a response, an error or the 15 s timeout), so no step of a task stays
\* enabled for ever without being taken.  The configuration is the one with
\* a URL per provider.
FairInit == Init /\ \A p, q \in Providers : p # q => url[p] # url[q]

FairSpec ==
  FairInit /\ [][Next]_vars /\ \A p \in Providers : WF_vars(ProviderStep(p))

(***************************************************************************)
(* Properties                                                              *)
(***************************************************************************)
NoRepeat(rs) == \A i, j \in DOMAIN rs : i # j => KeyOf(rs[i]) # KeyOf(rs[j])

\* outcomes with which fetch returns None
TransportFailures == {"network_error", "timeout", "bad_status", "body_timeout"}
NoneOutcomes == TransportFailures \cup {"not_modified"}

\* p's fetch is in progress
InFetch(p) == pc[p] \in {"await_response", "await_body"}

\* the step is one of p's task
StepOf(p) == pc'[p] # pc[p] /\ proc' = proc

\* C1: over any sequence of find_new_updates calls on one detector, the
\* seen-set only grows, and a call returns no key twice and no key that an
\* earlier call on the detector returned.
C1_SeenGrowsNoKeyTwice ==
  [][ /\ dseen \subseteq dseen'
      /\ dphase' # "idle" =>
           /\ KeysOfRecords(dout') \cap dreturned = {}
           /\ NoRepeat(dout') ]_vars

\* a call returned a new update for a document that also held a key an
\* earlier call had returned
C1_Witness ==
  /\ dphase = "returned"
  /\ dout # <<>>
  /\ \E k \in DocKeys(ddoc) : k \in dreturned \ KeysOfRecords(dout)

\* the cache entry that holds exactly the validators response headers h carry
ExactEntry(h) ==
  [k \in {x \in {"etag", "last_modified"} :
            (x = "etag" /\ "ETag" \in DOMAIN h)
            \/ (x = "last_modified" /\ "Last-Modified" \in DOMAIN h)}
     |-> IF k = "etag" THEN h["ETag"] ELSE h["Last-Modified"]]

\* C2: once the server keeps serving, with unchanging headers, a document
\* that holds an update with key k, and fetches stop failing, the sink is
\* eventually invoked for k (unless the tracker is stopped from outside),
\* and it is never invoked twice for one key.
C2_EachUpdateExactlyOnce ==
  /\ \A p \in Providers : \A b \in SrvBodyIds : \A pol \in HeaderPolicies :
     \A k \in BodyKeys(b) :
       ( /\ <>[](srv[url[p]] = [body |-> b, policy |-> pol])
         /\ <>[](\A q \in Providers :
                   outcome[q] \notin TransportFailures /\ pc[q] # "raised") )
       => <>(k \in KeysOfRecords(emitted[p]) \/ proc = "stopped")
  /\ [](\A p \in Providers : NoRepeat(emitted[p]))

\* C3: a fetch that fails for a transport reason (network error, timeout
\* before or while the body is read, status of 400 or more) returns None
\* without raising, and leaves the cache entry of its URL as it was when the
\* call began.
C3_FailedFetchLeavesCache ==
  [][ \A p \in Providers :
        (InFetch(p) /\ outcome'[p] \in TransportFailures)
        => /\ pc'[p] = "sleep"
           /\ ~called'[p]
           /\ EntryFor(cache', url[p]) = cached0[p] ]_vars

\* C4: a passing response whose body is not JSON is handled like a failed
\* fetch: nothing is raised, the cache entry, the seen-set and the sink's
\* output are as they were when the cycle began, and the loop sleeps.
C4_UnparseableBodySkipsCycle ==
  [][ \A p \in Providers :
        (InFetch(p) /\ outcome'[p] = "json_error")
        => /\ pc'[p] = "sleep"
           /\ EntryFor(cache', url[p]) = cached0[p]
           /\ seen'[p] = seen[p]
           /\ emitted'[p] = emitted[p] ]_vars

\* C5: no failure in one provider's cycle ends the process or another
\* provider's task: the process never crashes, and a task is only ever
\* cancelled by the tracker being stopped from outside.
C5_FailureIsolation ==
  /\ proc # "crashed"
  /\ \A q \in Providers : pc[q] = "cancelled" => proc = "stopped"

\* C6: a provider's seen-set and the cache entry its requests read change
\* only in steps of that provider's own task.
C6_StateOwnedByProvider ==
  [][ \A q \in Providers :
        (seen'[q] # seen[q] \/ EntryFor(cache', url[q]) # EntryFor(cache, url[q]))
        => StepOf(q) ]_vars

\* C7: when the server answers 304, fetch returns None, and neither building
\* the request nor handling the 304 changes any entry of the cache.
C7_NotModifiedLeavesCache ==
  [][ \A p \in Providers :
        /\ (StepOf(p) /\ pc'[p] = "await_response") => cache' = cache
        /\ (InFetch(p) /\ outcome'[p] = "not_modified")
           => /\ cache' = cache
              /\ pc'[p] = "sleep"
              /\ ~called'[p] ]_vars

\* a 304 was answered to a request that carried validators
C7_Witness ==
  \E p \in Providers :
    /\ pc[p] = "sleep"
    /\ outcome[p] = "not_modified"
    /\ url[p] \in DOMAIN cache
    /\ cache[url[p]] # << >>

\* C8: a step that changes the cache is a provider receiving a passing
\* response; it sets that URL's entry to exactly the validators of the
\* response and leaves the other entries alone; and the cache changes in no
\* other circumstance: a fetch that returns no document leaves the entry of
\* its URL as it was when the call began.
C8_CacheReplacedOnlyOnSuccess ==
  [][ /\ cache' # cache =>
           \E p \in Providers :
             /\ pc[p] = "await_response" /\ pc'[p] = "await_body"
             /\ cache' = [u \in DOMAIN cache \cup {url[p]} |->
                            IF u = url[p] THEN ExactEntry(ResponseHeaders(srv[u])) ELSE cache[u]]
      /\ \A p \in Providers :
           (InFetch(p) /\ pc'[p] \in {"sleep", "raised"} /\ outcome'[p] # "document")
           => EntryFor(cache', url[p]) = cached0[p] ]_vars

\* C9: a cycle whose fetch yields a document (and whose find_new_updates
\* returns) passes to the sink exactly the updates find_new_updates
\* returned, in that order, before the task sleeps,
\* so the sink's output for a provider is always the concatenation of what
\* its detector returned.
C9_EmitsReturnedUpdatesInOrder ==
  [][ \A p \in Providers :
        /\ emitted'[p] = detected'[p]
        /\ (InFetch(p) /\ outcome'[p] = "document" /\ pc'[p] # "raised")
           => /\ pc'[p] = "sleep"
              /\ called'[p]
              /\ Len(detected'[p]) >= Len(detected[p])
              /\ emitted'[p] = emitted[p] \o
                   SubSeq(detected'[p], Len(detected[p]) + 1, Len(detected'[p])) ]_vars

\* a provider has passed two updates to the sink and sleeps
C9_Witness ==
  \E p \in Providers :
    /\ pc[p] = "sleep"
    /\ outcome[p] = "document"
    /\ Len(emitted[p]) >= 2

\* C10: a cycle whose fetch returns None (304 or a failure) does not call
\* find_new_updates, leaves the seen-set and the sink's output alone, and
\* goes to sleep.
C10_NoDocumentNoDetection ==
  [][ \A p \in Providers :
        (InFetch(p) /\ outcome'[p] \in NoneOutcomes)
        => /\ ~called'[p]
           /\ seen'[p] = seen[p]
           /\ emitted'[p] = emitted[p]
           /\ detected'[p] = detected[p]
           /\ pc'[p] = "sleep" ]_vars

\* a provider that has reported updates before sleeps after a cycle whose
\* fetch returned None
C10_Witness ==
  \E p \in Providers :
    /\ pc[p] = "sleep"
    /\ outcome[p] \in NoneOutcomes
    /\ seen[p] # {}

\* C11: no cycle ends a provider's loop: no exception ever leaves the loop,
\* and, under fair scheduling, a task keeps issuing fetches for ever unless
\* the tracker is stopped from outside.
C11_LoopNeverEnds ==
  /\ [](\A p \in Providers : pc[p] # "raised")
  /\ \A p \in Providers :
       []<>(pc[p] = "await_response") \/ <>(proc = "stopped")

\* a call on the stand-alone detector has returned
DetReturned == dphase \in {"returned", "repeated", "extended", "revised"}

\* C12: a call returns one record for each key of the document that was not
\* in the seen-set when the call began, and no other record, and leaves the
\* seen-set equal to the prior seen-set united with the document's keys; a
\* call with the document of the last call plus one added update, whose key
\* is new, returns exactly the record of the added update.
C12_ReturnsExactlyUnseenKeys ==
  DetReturned =>
    /\ KeysOfRecords(dout) = DocKeys(ddoc) \ dseen0
    /\ Len(dout) = Cardinality(DocKeys(ddoc) \ dseen0)
    /\ dseen = dseen0 \cup DocKeys(ddoc)
    /\ (dphase = "extended" /\ KeyAt(ddoc, dadded) \notin dseen0)
         => dout = << RecordAt(ddoc, dadded) >>

\* the document of the last call plus one added update was passed, and the
\* call returned the record of the added update alone
C12_Witness ==
  /\ dphase = "extended"
  /\ NumEntries(ddoc) >= 2
  /\ dout = << RecordAt(ddoc, dadded) >>
  /\ dseen0 # {}

\* C13: a call on a detector whose seen-set is empty returns a record for
\* every key of the document, each built from the first entry with that key;
\* the same document passed again right away returns the empty sequence and
\* leaves the seen-set as it is.
C13_SameDocumentTwice ==
  /\ (dphase = "returned" /\ dseen0 = {}) =>
       /\ KeysOfRecords(dout) = DocKeys(ddoc)
       /\ \A n \in DOMAIN dout : \E pos \in Positions(ddoc) :
            IsFirstOf(ddoc, pos, KeyOf(dout[n])) /\ dout[n] = RecordAt(ddoc, pos)
  /\ dphase = "repeated" => (dout = <<>> /\ dseen = dseen0)

\* a document with two keys was passed twice to a detector that had seen
\* nothing else
C13_Witness ==
  /\ dphase = "repeated"
  /\ dseen = DocKeys(ddoc)
  /\ dreturned = DocKeys(ddoc)
  /\ Cardinality(DocKeys(ddoc)) >= 2

\* C14: the returned records are in document order: of any two returned
\* records, the one that comes first was built from the entry that comes
\* first in the document (earlier incident, then earlier update).
C14_DocumentOrder ==
  DetReturned =>
    \A a, b \in DOMAIN dout : a < b =>
      \E pa, pb \in Positions(ddoc) :
        /\ IsFirstOf(ddoc, pa, KeyOf(dout[a])) /\ dout[a] = RecordAt(ddoc, pa)
        /\ IsFirstOf(ddoc, pb, KeyOf(dout[b])) /\ dout[b] = RecordAt(ddoc, pb)
        /\ Before(pa, pb)

\* a call returned two records built from entries of two incidents whose
\* ids differ
C14_Witness ==
  /\ dphase = "returned"
  /\ Len(dout) = 2
  /\ dout[1].incident_id # dout[2].incident_id

\* C15: find_new_updates never raises on a document with missing fields; it
\* returns a record for every entry whose key was not seen, and a record
\* carries the placeholder of every field its entry or its incident lacks; a
\* document without incidents yields the empty sequence.
C15_MissingFieldsGetPlaceholders ==
  /\ dphase # "raised"
  /\ DetReturned =>
       /\ \A pos \in Positions(ddoc) :
            KeyAt(ddoc, pos) \notin dseen0
            => \E n \in DOMAIN dout : KeyOf(dout[n]) = KeyAt(ddoc, pos)
       /\ \A n \in DOMAIN dout : \E pos \in Positions(ddoc) :
            LET inc == ddoc.incidents[pos[1]]
                upd == UpdatesOf(ddoc, pos[1])[pos[2]]
                r   == dout[n]
            IN  /\ IsFirstOf(ddoc, pos, KeyOf(r))
                /\ "id" \notin DOMAIN inc => r.incident_id = ""
                /\ "name" \notin DOMAIN inc => r.incident_name = "Unknown incident"
                /\ "impact" \notin DOMAIN inc => r.impact = "unknown"
                /\ "components" \notin DOMAIN inc => r.affected_components = <<>>
                /\ "id" \notin DOMAIN upd => r.update_id = ""
                /\ "created_at" \notin DOMAIN upd => r.created_at = ""
                /\ "body" \notin DOMAIN upd => r.body = ""
                /\ "status" \notin DOMAIN upd => r.update_status = "unknown"
       /\ Get(ddoc, "incidents", <<>>) = <<>> => dout = <<>>

\* a call returned a record for an entry without fields of an incident
\* without fields
C15_Witness ==
  /\ DetReturned
  /\ \E n \in DOMAIN dout :
       /\ dout[n].incident_id = "" /\ dout[n].update_id = ""
       /\ dout[n].incident_name = "Unknown incident"
       /\ dout[n].update_status = "unknown" /\ dout[n].impact = "unknown"
       /\ dout[n].created_at = "" /\ dout[n].body = ""

\* C16: what a provider's detector returns for a document is the document's
\* keys minus the keys that same detector returned before, whatever the
\* other detectors have returned; and a detector's seen-set holds the keys
\* it returned itself and no others.
C16_DetectorsShareNothing ==
  [][ \A p \in Providers :
        /\ seen'[p] = KeysOfRecords(detected'[p])
        /\ (pc[p] = "await_body" /\ outcome'[p] = "document" /\ pc'[p] = "sleep")
           => KeysOfRecords(SubSeq(detected'[p], Len(detected[p]) + 1, Len(detected'[p])))
                = BodyKeys(resp[p].body) \ KeysOfRecords(detected[p]) ]_vars

\* two providers' detectors have each reported an update with the same key
C16_Witness ==
  \E p, q \in Providers :
    /\ p # q
    /\ KeysOfRecords(detected[p]) \cap KeysOfRecords(detected[q]) # {}

\* the places where a provider task is suspended (not yet run, inside fetch,
\* inside the sleep) or was cancelled
Suspended(p) == pc[p] \in {"created", "await_response", "await_body", "sleep", "cancelled"}

\* C17: wherever a provider task is suspended, and so can be cancelled or
\* interleaved with another task, and after it was cancelled, every key in
\* its detector's seen-set has been passed to the sink.
C17_NoPartialStateAtSuspension ==
  \A p \in Providers : Suspended(p) => seen[p] = KeysOfRecords(emitted[p])

\* the tracker was stopped and a task that had reported two updates in one
\* cycle was cancelled
C17_Witness ==
  \E p \in Providers :
    /\ proc = "stopped"
    /\ pc[p] = "cancelled"
    /\ Cardinality(seen[p]) >= 2

\* C18: a request carries If-None-Match exactly when the cache entry of its
\* URL holds an entity tag, which is exactly when the latest passing
\* response for that URL carried an ETag, and then with that ETag; likewise
\* for If-Modified-Since and Last-Modified; it carries no other header, so
\* the first request for a URL, and a request after a passing response
\* without validators, is unconditional.
C18_ConditionalRequest ==
  [][ \A p \in Providers :
        (StepOf(p) /\ pc'[p] = "await_response") =>
          LET h    == req'[p]
              e    == Get(cache, url[p], << >>)
              last == lastok[url[p]]
          IN  /\ DOMAIN h \subseteq {"If-None-Match", "If-Modified-Since"}
              /\ ("If-None-Match" \in DOMAIN h) <=> ("etag" \in DOMAIN e)
              /\ ("If-None-Match" \in DOMAIN h) <=> ("ETag" \in DOMAIN last)
              /\ "If-None-Match" \in DOMAIN h => h["If-None-Match"] = last["ETag"]
              /\ ("If-Modified-Since" \in DOMAIN h) <=> ("last_modified" \in DOMAIN e)
              /\ ("If-Modified-Since" \in DOMAIN h) <=> ("Last-Modified" \in DOMAIN last)
              /\ "If-Modified-Since" \in DOMAIN h
                 => h["If-Modified-Since"] = last["Last-Modified"] ]_vars

\* a request without preconditions is in flight for a URL whose latest
\* passing response carried no validators, after an earlier one that did
C18_Witness ==
  \E p \in Providers :
    /\ pc[p] = "await_response"
    /\ req[p] = << >>
    /\ lastok[url[p]] = << >>
    /\ seen[p] # {}

\* C19: a call returns no record for an entry whose key was in the seen-set
\* when the call began, whatever the entry's and its incident's other fields
\* are now: the document of the last call, passed again with the name,
\* impact, components, status, body or timestamp of one incident or entry
\* changed and the ids as they were, yields no record; every record a call
\* returns is built from the document of that call, for a key not seen before.
C19_KeyedOnIdsOnly ==
  /\ dphase = "revised" => (dout = <<>> /\ dseen = dseen0)
  /\ DetReturned =>
       /\ \A pos \in Positions(ddoc) :
            KeyAt(ddoc, pos) \in dseen0
            => \A n \in DOMAIN dout : KeyOf(dout[n]) # KeyAt(ddoc, pos)
       /\ \A n \in DOMAIN dout : \E pos \in Positions(ddoc) :
            dout[n] = RecordAt(ddoc, pos) /\ KeyAt(ddoc, pos) \notin dseen0

\* the document of the last call was passed again with changed fields under
\* the same ids, and the call returned
C19_Witness ==
  /\ dphase = "revised"
  /\ Positions(ddoc) # {}
  /\ dseen = DocKeys(ddoc)

\* C20: when several entries of the document of one call have the same key,
\* the call returns at most one record with that key, built from the first
\* of them in document order (if the key was not seen before); the key is in
\* the seen-set afterwards, and the same document passed again yields
\* nothing, so the later entries are never reported.
C20_FirstDuplicateOnly ==
  /\ DetReturned =>
       \A pos \in Positions(ddoc) :
         LET k == KeyAt(ddoc, pos)
         IN  /\ Cardinality({n \in DOMAIN dout : KeyOf(dout[n]) = k}) <= 1
             /\ k \in dseen
             /\ \A n \in DOMAIN dout :
                  KeyOf(dout[n]) = k /\ IsFirstOf(ddoc, pos, k)
                  => dout[n] = RecordAt(ddoc, pos)
             /\ (k \notin dseen0 /\ IsFirstOf(ddoc, pos, k))
                => \E n \in DOMAIN dout : dout[n] = RecordAt(ddoc, pos)
  /\ dphase = "repeated" =>
       \A pos \in Positions(ddoc) :
         \A n \in DOMAIN dout : KeyOf(dout[n]) # KeyAt(ddoc, pos)

\* a call returned one record for a document with two entries of one key,
\* not seen before, whose records would differ
C20_Witness ==
  /\ DetReturned
  /\ \E pos1, pos2 \in Positions(ddoc) :
       /\ Before(pos1, pos2)
       /\ KeyAt(ddoc, pos1) = KeyAt(ddoc, pos2)
       /\ KeyAt(ddoc, pos1) \notin dseen0
       /\ RecordAt(ddoc, pos1) # RecordAt(ddoc, pos2)
       /\ dout = << RecordAt(ddoc, pos1) >>

=============================================================================
